---- MODULE Spec2Model ----
(***************************************************************************)
(* Model of the Noir "hello_world" tutorial repository.                    *)
(*                                                                         *)
(*  - the circuit  fn main(age: u8, min_age: pub u8) { assert(age >=       *)
(*    min_age); }  and its evaluation into a witness;                      *)
(*  - the browser application hello_world/index.js: top-level WASM         *)
(*    initialisation, the click handler pipeline getCircuit -> execute ->  *)
(*    generateProof -> verifyProof -> alert, and its catch block;          *)
(*  - the command-line workflow of the tutorial: Prover.toml -> nargo      *)
(*    execute -> bb prove -> extraction script (head/tail) -> verifier     *)
(*    contract call of interact.s.sol.                                     *)
(*                                                                         *)
(* A behaviour follows one of the entry points of the tutorial ("browser", *)
(* "cli", or "extract": the extraction script run on the proof file of a   *)
(* circuit with any number of public inputs).                              *)
(***************************************************************************)
EXTENDS Integers, Sequences, FiniteSets, TLC

(***************************************************************************)
(* Bounds of the model.                                                    *)
(***************************************************************************)
\* number of clicks on the submit button (handler runs, possibly overlapping)
MaxClicks == 2
\* Prover.toml values 0..MaxAge are enumerated (plus the values around 2^8)
MaxAge == 24
\* the extraction script is run for circuits with 0..MaxPub public inputs
MaxPub == 2

(***************************************************************************)
(* Program constants.                                                      *)
(***************************************************************************)
\* u8: the declared bit-width of both parameters of main
U8Bits == 8
\* min_age: 18 in the click handler's call of noir.execute
MIN_AGE == 18
\* NUM_PUBLIC_INPUTS=1 in the extraction script
NUM_PUBLIC_INPUTS == 1
\* PUBLIC_INPUT_BYTES=$((32*$NUM_PUBLIC_INPUTS)): one 32-byte word per input
WORD_BYTES == 32

ConstraintMessage == "Cannot satisfy constraint"
\* the text of the alert of the else branch (the source adds an emoji)
GenericMessage == "something went wrong"

(***************************************************************************)
(* The circuit.                                                            *)
(***************************************************************************)
ParamsAllPublic ==
    << [name |-> "age", pub |-> TRUE, bits |-> U8Bits],
       [name |-> "min_age", pub |-> TRUE, bits |-> U8Bits] >>

\* fn main(age: u8, min_age: pub u8): the signature, in declaration order
Params ==
    << [name |-> "age", pub |-> FALSE, bits |-> U8Bits],
       [name |-> "min_age", pub |-> TRUE, bits |-> U8Bits] >>

ParamNames == { Params[i].name : i \in 1..Len(Params) }

\* fn main(x: Field, y: Field): the other circuit of the tutorial, no public input
ParamsSum ==
    << [name |-> "x", pub |-> FALSE, bits |-> 254],
       [name |-> "y", pub |-> FALSE, bits |-> 254] >>

Circuits == {"hello_world", "sum"}

ParamsOf(c) == IF c = "hello_world" THEN Params ELSE ParamsSum

RECURSIVE Pow2(_)
Pow2(n) == IF n = 0 THEN 1 ELSE 2 * Pow2(n - 1)

mainNoAssert(age, min_age) == TRUE

\* the body of main: whether assert(age >= min_age) passes
main(age, min_age) == age >= min_age

(***************************************************************************)
(* age >= min_age as a constraint over field elements: both operands and   *)
(* their difference are decomposed into bits, every bit b satisfies        *)
(* b * (b - 1) = 0, the bits recompose to the decomposed value, and the    *)
(* borrow of the subtraction is a bit constrained to 0.  Arithmetic is     *)
(* exact modulo FieldModulus, a prime above 2^(n+1) standing for the       *)
(* prime of the proof system.                                              *)
(***************************************************************************)
FieldModulus == 521

Field == 0..(FieldModulus - 1)

FieldAdd(x, y) == (x + y) % FieldModulus

FieldSub(x, y) == (x + FieldModulus - y) % FieldModulus

FieldMul(x, y) == (x * y) % FieldModulus

\* the field elements b with b * (b - 1) = 0
Bits == { b \in Field : FieldMul(b, FieldSub(b, 1)) = 0 }

BitVectors(n) == [0..(n - 1) -> Bits]

RECURSIVE Recompose(_, _)
\* sum of bits[k] * 2^k over k < n, in the field
Recompose(bits, n) ==
    IF n = 0 THEN 0
    ELSE FieldAdd(Recompose(bits, n - 1), FieldMul(bits[n - 1], Pow2(n - 1)))

\* x has a decomposition into n constrained bits
Decomposes(x, n) == \E bits \in BitVectors(n) : Recompose(bits, n) = x

\* the difference a - b + borrow * 2^n has a decomposition into n bits
DifferenceDecomposes(a, b, borrow, n) ==
    Decomposes(FieldAdd(FieldSub(a, b), FieldMul(borrow, Pow2(n))), n)

GreaterOrEqualNoOperandRange(a, b, n) ==
    \E borrow \in Bits :
       /\ DifferenceDecomposes(a, b, borrow, n)
       /\ borrow = 0

\* the constraint system has a satisfying assignment of its bits
GreaterOrEqual(a, b, n) ==
    /\ Decomposes(a, n)
    /\ Decomposes(b, n)
    /\ \E borrow \in Bits :
          /\ DifferenceDecomposes(a, b, borrow, n)
          /\ borrow = 0

(***************************************************************************)
(* Input values as the caller supplies them: absent, an integer, or a      *)
(* string that is no unsigned integer.                                     *)
(***************************************************************************)
Missing == [kind |-> "missing", v |-> 0]
Malformed == [kind |-> "malformed", v |-> 0]
IntVal(n) == [kind |-> "int", v |-> n]

Digits == <<"0", "1", "2", "3", "4", "5", "6", "7", "8", "9">>

IsDigit(c) == \E d \in 1..10 : Digits[d] = c

DigitVal(c) == (CHOOSE d \in 1..10 : Digits[d] = c) - 1

RECURSIVE ParseDigits(_, _)
ParseDigits(s, acc) ==
    IF s = <<>> THEN acc
    ELSE ParseDigits(Tail(s), 10 * acc + DigitVal(Head(s)))

\* the value of the age field (a string, here its characters) as the ABI
\* encoder reads it: a decimal unsigned integer or not an integer at all
ParseInput(s) ==
    IF s # <<>> /\ \A i \in 1..Len(s) : IsDigit(s[i])
    THEN IntVal(ParseDigits(s, 0))
    ELSE Malformed

(***************************************************************************)
(* Evaluation of the circuit on named inputs.                              *)
(***************************************************************************)
\* an error: its kind, its message, the constraint it names and the signal
\* values it carries
NoError == [kind |-> "none", message |-> "", constraint |-> "", values |-> <<>>]

ErrorOf(kind, message, constraint) ==
    [kind |-> kind, message |-> message, constraint |-> constraint,
     values |-> <<>>]

Failure(e) == [ok |-> FALSE, witness |-> <<>>, error |-> e]

Success(w) == [ok |-> TRUE, witness |-> <<w>>, error |-> NoError]

\* the error of a failed assert(age >= min_age): the assert has no message
\* argument, so the error names the constraint and carries no value
AssertError == ErrorOf("ConstraintViolation", ConstraintMessage, "age >= min_age")

AssertErrorWithAge(inputs) ==
    [AssertError EXCEPT !.values = <<inputs["age"].v>>]

ConstraintError(inputs) == AssertError

\* the public-input vector: the witness restricted to the pub parameters, in
\* declaration order
PublicInputs(w) ==
    LET pubIdx == { i \in 1..Len(Params) : Params[i].pub }
        RECURSIVE Collect(_)
        Collect(i) ==
            IF i > Len(Params) THEN <<>>
            ELSE IF i \in pubIdx THEN <<w[Params[i].name]>> \o Collect(i + 1)
            ELSE Collect(i + 1)
    IN  Collect(1)

NumPublic(c) == Cardinality({ i \in 1..Len(ParamsOf(c)) : ParamsOf(c)[i].pub })

EvaluateConstraintFirst(inputs) ==
    IF \E i \in 1..Len(Params) : inputs[Params[i].name].kind = "missing"
    THEN Failure(ErrorOf("MissingInput", "MissingInput", ""))
    ELSE IF \E i \in 1..Len(Params) : inputs[Params[i].name].kind = "malformed"
    THEN Failure(ErrorOf("MalformedInput", "MalformedInput", ""))
    ELSE IF ~main(inputs["age"].v, inputs["min_age"].v)
    THEN Failure(ConstraintError(inputs))
    ELSE IF \E i \in 1..Len(Params) :
                inputs[Params[i].name].v >= Pow2(Params[i].bits)
    THEN Failure(ErrorOf("InputOutOfRange", "InputOutOfRange", ""))
    ELSE Success([n \in ParamNames |-> inputs[n].v])

\* evaluate(circuit, named_inputs): inputs are validated against the signature
\* (present, an integer, fitting the declared width), then the body is run
Evaluate(inputs) ==
    IF \E i \in 1..Len(Params) : inputs[Params[i].name].kind = "missing"
    THEN Failure(ErrorOf("MissingInput", "MissingInput", ""))
    ELSE IF \E i \in 1..Len(Params) : inputs[Params[i].name].kind = "malformed"
    THEN Failure(ErrorOf("MalformedInput", "MalformedInput", ""))
    ELSE IF \E i \in 1..Len(Params) :
                inputs[Params[i].name].v >= Pow2(Params[i].bits)
    THEN Failure(ErrorOf("InputOutOfRange", "InputOutOfRange", ""))
    ELSE IF ~main(inputs["age"].v, inputs["min_age"].v)
    THEN Failure(ConstraintError(inputs))
    ELSE Success([n \in ParamNames |-> inputs[n].v])

(***************************************************************************)
(* Bytes, hexadecimal text and the 32-byte big-endian word of a field      *)
(* element.                                                                *)
(***************************************************************************)
HexChars == <<"0", "1", "2", "3", "4", "5", "6", "7",
              "8", "9", "a", "b", "c", "d", "e", "f">>

HexVal(c) == (CHOOSE d \in 1..16 : HexChars[d] = c) - 1

\* byte.toString(16).padStart(2, "0"), joined; also od -An -v -t x1 | tr -d ' \n'
RECURSIVE uint8ArrayToHex(_)
uint8ArrayToHex(bytes) ==
    IF bytes = <<>> THEN <<>>
    ELSE << HexChars[(Head(bytes) \div 16) + 1], HexChars[(Head(bytes) % 16) + 1] >>
         \o uint8ArrayToHex(Tail(bytes))

\* hex"...": the bytes of a hexadecimal literal
RECURSIVE HexToBytes(_)
HexToBytes(hex) ==
    IF Len(hex) < 2 THEN <<>>
    ELSE << 16 * HexVal(hex[1]) + HexVal(hex[2]) >> \o HexToBytes(Tail(Tail(hex)))

\* the byte of weight 256^k of v (k = 0 is the last byte of the word); the
\* values of the model are below 256^3
ByteOfWeight(v, k) ==
    IF k = 0 THEN v % 256
    ELSE IF k = 1 THEN (v \div 256) % 256
    ELSE IF k = 2 THEN (v \div 65536) % 256
    ELSE 0

\* bytes32 publicInput = 0x00..12 for 18: a field element as a 32-byte
\* big-endian word
Bytes32(v) == [i \in 1..WORD_BYTES |-> ByteOfWeight(v, WORD_BYTES - i)]

\* the value of a big-endian word
RECURSIVE BigEndianValue(_, _)
BigEndianValue(bytes, acc) ==
    IF bytes = <<>> THEN acc
    ELSE BigEndianValue(Tail(bytes), 256 * acc + Head(bytes))

RECURSIVE EncodePublicInputs(_)
EncodePublicInputs(pub) ==
    IF pub = <<>> THEN <<>>
    ELSE Bytes32(Head(pub)) \o EncodePublicInputs(Tail(pub))

\* head -c n
HeadBytes(n, file) == SubSeq(file, 1, IF n < Len(file) THEN n ELSE Len(file))

\* tail -c +k: from byte k (counted from 1) to the end; +0 is +1
TailFrom(k, file) == SubSeq(file, IF k < 1 THEN 1 ELSE k, Len(file))

(***************************************************************************)
(* The proving system, as the tutorial uses it: an ideal proof system that *)
(* keeps the table of the statements it has proved.                        *)
(***************************************************************************)
\* the opaque proof blobs of the model
ProofBlobs == { <<1, 2>>, <<1, 3>>, <<171, 205>> }

\* bb write_vk -b ./target/<circuit>.json: the key names the circuit
VK(circuit) == circuit

\* the table entry of a proof generated from witness w of hello_world
Proved(w, blob) ==
    [vk |-> VK("hello_world"), publicInputs |-> PublicInputs(w),
     proof |-> blob, witness |-> w]

\* verify(vk, public_inputs, proof): "error" on a public-input count that is
\* not the circuit's, else whether the proof was issued for (vk, public_inputs)
Verify(table, vk, pub, blob) ==
    IF Len(pub) # NumPublic(vk) THEN "error"
    ELSE IF \E e \in table :
                e.vk = vk /\ e.publicInputs = pub /\ e.proof = blob
    THEN "true"
    ELSE "false"

StructuralError ==
    ErrorOf("VerificationStructuralError", "VerificationStructuralError", "")

(***************************************************************************)
(* State.                                                                  *)
(***************************************************************************)
VARIABLES
    flow,             \* the entry point this behaviour follows
    issued,           \* the proofs generated so far (the prover's table)
    \* hello_world/index.js
    acvmInit,         \* initACVM(fetch(acvm)): pending, resolved, rejected
    noircInit,        \* initNoirC(fetch(noirc))
    module,           \* the module body: awaitInit, listening, failed
    ageField,         \* document.getElementById("age").value
    clicks,           \* clicks on the submit button so far
    handlers,         \* the runs of the click handler
    \* the command-line workflow
    proverToml,       \* Prover.toml
    cliPc,            \* toml, executed, proved, extracted
    execResult,       \* the outcome of nargo execute
    numPublicInputs,  \* NUM_PUBLIC_INPUTS of the extraction script
    proofFile,        \* ./target/proof
    filePubs,         \* the public inputs the proof file was generated against
    hexPublicInputs,  \* HEX_PUBLIC_INPUTS
    hexProof,         \* HEX_PROOF
    lastVerify,       \* the last verification call and its outcome
    \* the comparison constraint of the compiled circuit
    opA,              \* the field element assigned to the left operand
    opB,              \* the field element assigned to the right operand
    cmpResult         \* <<>>, or whether the constraint can be satisfied

browserVars == <<acvmInit, noircInit, module, ageField, clicks, handlers>>

cliVars == <<proverToml, cliPc, execResult, numPublicInputs, proofFile,
             filePubs, hexPublicInputs, hexProof, lastVerify>>

circuitVars == <<opA, opB, cmpResult>>

vars == <<flow, issued, browserVars, cliVars, circuitVars>>

(***************************************************************************)
(* Input domains.                                                          *)
(***************************************************************************)
\* what the user may have typed in the age field
AgeStrings ==
    { <<>>, <<"0">>, <<"1", "7">>, <<"1", "8">>, <<"2", "4">>,
      <<"2", "5", "6">> }

\* the values of Prover.toml: small ages and the values around 2^8
InputVals == (0..MaxAge) \cup {255, 256, 300}

\* field elements assigned to the operands: the values of Prover.toml, and
\* elements just below the modulus, which stand for small negative integers
FieldSamples ==
    InputVals \cup { FieldModulus - 1, FieldModulus - 10,
                     FieldModulus - MIN_AGE, FieldModulus - 255 }

CliInputs == {Missing} \cup { IntVal(v) : v \in InputVals }

\* the messages of the errors an external call may throw on its own
FaultMessages == {ConstraintMessage, "backend failure"}

\* public-input vectors of proof files given to the extraction script
ExtractVals == {0, 18, 4660}

RECURSIVE SeqsUpTo(_, _)
SeqsUpTo(S, n) ==
    IF n = 0 THEN { <<>> }
    ELSE LET shorter == SeqsUpTo(S, n - 1)
         IN  shorter \cup { Append(q, x) : q \in shorter, x \in S }

NoHandler ==
    [pc |-> "idle", age |-> <<>>, witness |-> <<>>, proof |-> <<>>,
     isValid |-> <<>>, err |-> <<>>, alerts |-> <<>>, console |-> <<>>,
     calls |-> <<>>]

\* a call of the pipeline made by a handler run, with its argument
Call(op, arg) == [op |-> op, arg |-> arg]

NoVerify == [by |-> "none", vk |-> "", publicInputs |-> <<>>, proof |-> <<>>,
             outcome |-> "none"]

NoResult == [ok |-> FALSE, witness |-> <<>>, error |-> NoError]

BrowserIdle ==
    /\ acvmInit = "pending"
    /\ noircInit = "pending"
    /\ module = "awaitInit"
    /\ clicks = 0
    /\ handlers = [i \in 1..MaxClicks |-> NoHandler]

CliIdle ==
    /\ execResult = NoResult
    /\ hexPublicInputs = <<>>
    /\ hexProof = <<>>
    /\ lastVerify = NoVerify

CircuitIdle ==
    /\ opA = 0
    /\ opB = 0
    /\ cmpResult = <<>>

Init ==
    /\ issued = {}
    /\ \/ /\ flow = "browser"
          /\ BrowserIdle
          /\ ageField \in AgeStrings
          /\ proverToml = [age |-> Missing, min_age |-> Missing]
          /\ cliPc = "unused"
          /\ numPublicInputs = NUM_PUBLIC_INPUTS
          /\ proofFile = <<>>
          /\ filePubs = <<>>
          /\ CliIdle
          /\ CircuitIdle
       \/ /\ flow = "cli"
          /\ BrowserIdle
          /\ ageField = <<>>
          /\ proverToml \in [age : CliInputs, min_age : CliInputs]
          /\ cliPc = "toml"
          /\ numPublicInputs = NUM_PUBLIC_INPUTS
          /\ proofFile = <<>>
          /\ filePubs = <<>>
          /\ CliIdle
          /\ CircuitIdle
       \/ /\ flow = "extract"
          /\ BrowserIdle
          /\ ageField = <<>>
          /\ proverToml = [age |-> Missing, min_age |-> Missing]
          /\ cliPc = "proved"
          /\ \E pub \in SeqsUpTo(ExtractVals, MaxPub), blob \in ProofBlobs :
                /\ numPublicInputs = Len(pub)
                /\ filePubs = pub
                /\ proofFile = EncodePublicInputs(pub) \o blob
          /\ CliIdle
          /\ CircuitIdle
       \/ /\ flow = "circuit"
          /\ BrowserIdle
          /\ ageField = <<>>
          /\ proverToml = [age |-> Missing, min_age |-> Missing]
          /\ cliPc = "unused"
          /\ numPublicInputs = NUM_PUBLIC_INPUTS
          /\ proofFile = <<>>
          /\ filePubs = <<>>
          /\ CliIdle
          /\ opA \in FieldSamples
          /\ opB \in FieldSamples
          /\ cmpResult = <<>>

(***************************************************************************)
(* hello_world/index.js: module initialisation.                            *)
(***************************************************************************)
\* import circuitJson from "./target/hello_world.json": the compiled circuit,
\* an object, so getCircuit takes the branch that returns it
circuitJson == "hello_world"

\* getCircuit(): { program: circuitJson }
getCircuit == [program |-> circuitJson]

InitACVMResolves ==
    /\ flow = "browser"
    /\ acvmInit = "pending"
    /\ acvmInit' = "resolved"
    /\ UNCHANGED <<flow, issued, noircInit, module, ageField, clicks, handlers,
                   cliVars, circuitVars>>

InitNoirCResolves ==
    /\ flow = "browser"
    /\ noircInit = "pending"
    /\ noircInit' = "resolved"
    /\ UNCHANGED <<flow, issued, acvmInit, module, ageField, clicks, handlers,
                   cliVars, circuitVars>>

\* a fetch or an initialisation fails
InitACVMRejects ==
    /\ flow = "browser"
    /\ acvmInit = "pending"
    /\ acvmInit' = "rejected"
    /\ UNCHANGED <<flow, issued, noircInit, module, ageField, clicks, handlers,
                   cliVars, circuitVars>>

InitNoirCRejects ==
    /\ flow = "browser"
    /\ noircInit = "pending"
    /\ noircInit' = "rejected"
    /\ UNCHANGED <<flow, issued, acvmInit, module, ageField, clicks, handlers,
                   cliVars, circuitVars>>

AnyInitSettled ==
    acvmInit # "pending" \/ noircInit # "pending"

\* await Promise.all([initACVM(...), initNoirC(...)]) resolves once both have
\* resolved
InitAwaited ==
    acvmInit = "resolved" /\ noircInit = "resolved"

\* the module body resumes after the await and reaches
\* document.getElementById("submit").addEventListener("click", ...)
ModuleRegistersListener ==
    /\ flow = "browser"
    /\ module = "awaitInit"
    /\ InitAwaited
    /\ module' = "listening"
    /\ UNCHANGED <<flow, issued, acvmInit, noircInit, ageField, clicks,
                   handlers, cliVars, circuitVars>>

\* Promise.all rejects: the module body throws at the await and never
\* registers the listener
ModuleFails ==
    /\ flow = "browser"
    /\ module = "awaitInit"
    /\ acvmInit = "rejected" \/ noircInit = "rejected"
    /\ module' = "failed"
    /\ UNCHANGED <<flow, issued, acvmInit, noircInit, ageField, clicks,
                   handlers, cliVars, circuitVars>>

\* a continuation queued by  await getCircuit()  (the promise is already
\* resolved) runs before the next event is handled
ContinuationQueued == \E i \in 1..MaxClicks : handlers[i].pc = "awaitCircuit"

\* the user edits the age field
TypeAge(s) ==
    /\ flow = "browser"
    /\ ~ContinuationQueued
    /\ s # ageField
    /\ ageField' = s
    /\ UNCHANGED <<flow, issued, acvmInit, noircInit, module, clicks, handlers,
                   cliVars, circuitVars>>

(***************************************************************************)
(* hello_world/index.js: the click handler.                                *)
(***************************************************************************)
CatchAlwaysGeneric(h, e) ==
    [h EXCEPT !.pc = "done",
              !.err = <<e>>,
              !.console = Append(@, e),
              !.alerts = Append(@, GenericMessage)]

CatchSilent(h, e) ==
    [h EXCEPT !.pc = "done",
              !.err = <<e>>,
              !.console = Append(@, e)]

\* the catch block: console.error(err), then the alert chosen by err.message
Catch(h, e) ==
    [h EXCEPT !.pc = "done",
              !.err = <<e>>,
              !.console = Append(@, e),
              !.alerts = Append(@, IF e.message = ConstraintMessage
                                   THEN e.message
                                   ELSE GenericMessage)]

\* a click while no listener is registered: nothing runs
ClickIgnored ==
    /\ flow = "browser"
    /\ module # "listening"
    /\ clicks < MaxClicks
    /\ clicks' = clicks + 1
    /\ UNCHANGED <<flow, issued, acvmInit, noircInit, module, ageField,
                   handlers, cliVars, circuitVars>>

\* a click: the listener runs up to  await getCircuit()
Click ==
    /\ flow = "browser"
    /\ module = "listening"
    /\ ~ContinuationQueued
    /\ clicks < MaxClicks
    /\ clicks' = clicks + 1
    /\ \E i \in 1..MaxClicks :
          /\ handlers[i].pc = "idle"
          /\ \A j \in 1..(i - 1) : handlers[j].pc # "idle"
          /\ handlers' = [handlers EXCEPT
                             ![i].pc = "awaitCircuit",
                             ![i].calls = Append(@, Call("getCircuit", <<>>))]
    /\ UNCHANGED <<flow, issued, acvmInit, noircInit, module, ageField,
                   cliVars, circuitVars>>

CallExecuteTwice(i) ==
    /\ flow = "browser"
    /\ handlers[i].pc = "awaitCircuit"
    /\ handlers' = [handlers EXCEPT
                       ![i].pc = "awaitExecute",
                       ![i].age = ageField,
                       ![i].calls = @ \o << Call("execute", <<ageField>>),
                                            Call("execute", <<ageField>>) >>]
    /\ UNCHANGED <<flow, issued, acvmInit, noircInit, module, ageField, clicks,
                   cliVars, circuitVars>>

\* getCircuit resolved: new Noir(program), new UltraHonkBackend(bytecode), the
\* age field is read and noir.execute({ age, min_age: 18 }) is called
CallExecute(i) ==
    /\ flow = "browser"
    /\ handlers[i].pc = "awaitCircuit"
    /\ handlers' = [handlers EXCEPT
                       ![i].pc = "awaitExecute",
                       ![i].age = ageField,
                       ![i].calls = Append(@, Call("execute", <<ageField>>))]
    /\ UNCHANGED <<flow, issued, acvmInit, noircInit, module, ageField, clicks,
                   cliVars, circuitVars>>

\* the arguments of noir.execute in run h
ExecuteInputs(h) == [age |-> ParseInput(h.age), min_age |-> IntVal(MIN_AGE)]

ExecuteSettlesPoisoned(i) ==
    /\ flow = "browser"
    /\ handlers[i].pc = "awaitExecute"
    /\ LET r == Evaluate(ExecuteInputs(handlers[i]))
           poisoned == \E j \in 1..MaxClicks : j # i /\ handlers[j].err # <<>>
       IN  handlers' =
             [handlers EXCEPT ![i] =
                IF poisoned
                THEN Catch(@, ErrorOf("Fault", "backend failure", ""))
                ELSE IF r.ok
                THEN [@ EXCEPT !.pc = "awaitProof",
                               !.witness = r.witness,
                               !.calls = Append(@, Call("generateProof",
                                                        r.witness))]
                ELSE Catch(@, r.error)]
    /\ UNCHANGED <<flow, issued, acvmInit, noircInit, module, ageField, clicks,
                   cliVars, circuitVars>>

\* noir.execute settles: with a witness, and backend.generateProof(witness) is
\* called, or with an error, and the catch block runs
ExecuteSettles(i) ==
    /\ flow = "browser"
    /\ handlers[i].pc = "awaitExecute"
    /\ LET r == Evaluate(ExecuteInputs(handlers[i]))
       IN  handlers' =
             [handlers EXCEPT ![i] =
                IF r.ok
                THEN [@ EXCEPT !.pc = "awaitProof",
                               !.witness = r.witness,
                               !.calls = Append(@, Call("generateProof",
                                                        r.witness))]
                ELSE Catch(@, r.error)]
    /\ UNCHANGED <<flow, issued, acvmInit, noircInit, module, ageField, clicks,
                   cliVars, circuitVars>>

ProofDataTruncated(w, blob) ==
    [proof |-> Tail(blob), publicInputs |-> PublicInputs(w)]

\* the ProofData of generateProof: { proof, publicInputs }
ProofData(w, blob) == [proof |-> blob, publicInputs |-> PublicInputs(w)]

\* generateProof resolves: console.log(proof), console.log(hex of proof.proof),
\* and backend.verifyProof(proof) is called
ProofResolves(i) ==
    /\ flow = "browser"
    /\ handlers[i].pc = "awaitProof"
    /\ \E blob \in ProofBlobs :
          LET w == handlers[i].witness[1]
              pd == ProofData(w, blob)
          IN  /\ issued' = issued \cup { Proved(w, blob) }
              /\ handlers' =
                   [handlers EXCEPT ![i].pc = "awaitVerify",
                                    ![i].proof = <<pd>>,
                                    ![i].calls =
                                        Append(@, Call("verifyProof", <<pd>>)),
                                    ![i].console =
                                        @ \o <<pd, uint8ArrayToHex(pd.proof)>>]
    /\ UNCHANGED <<flow, acvmInit, noircInit, module, ageField, clicks,
                   cliVars, circuitVars>>

\* generateProof rejects
ProofRejects(i) ==
    /\ flow = "browser"
    /\ handlers[i].pc = "awaitProof"
    /\ \E m \in FaultMessages :
          handlers' = [handlers EXCEPT ![i] = Catch(@, ErrorOf("Fault", m, ""))]
    /\ UNCHANGED <<flow, issued, acvmInit, noircInit, module, ageField, clicks,
                   cliVars, circuitVars>>

\* the outcome of backend.verifyProof(proof) for the backend of the handler,
\* built from program.bytecode
VerifyProof(table, pd) ==
    Verify(table, VK(getCircuit.program), pd.publicInputs, pd.proof)

\* verifyProof resolves: alert(isValid ? "Valid" : "Invalid")
VerifyResolves(i) ==
    /\ flow = "browser"
    /\ handlers[i].pc = "awaitVerify"
    /\ LET outcome == VerifyProof(issued, handlers[i].proof[1])
       IN  handlers' =
             [handlers EXCEPT ![i] =
                IF outcome = "error"
                THEN Catch(@, StructuralError)
                ELSE [@ EXCEPT !.pc = "done",
                               !.isValid = <<outcome = "true">>,
                               !.alerts = Append(@, IF outcome = "true"
                                                    THEN "Valid"
                                                    ELSE "Invalid")]]
    /\ UNCHANGED <<flow, issued, acvmInit, noircInit, module, ageField, clicks,
                   cliVars, circuitVars>>

VerifyRejectsAlertsInvalid(i) ==
    /\ flow = "browser"
    /\ handlers[i].pc = "awaitVerify"
    /\ \E m \in FaultMessages :
          handlers' = [handlers EXCEPT ![i].pc = "done",
                                       ![i].err = <<ErrorOf("Fault", m, "")>>,
                                       ![i].alerts = Append(@, "Invalid")]
    /\ UNCHANGED <<flow, issued, acvmInit, noircInit, module, ageField, clicks,
                   cliVars, circuitVars>>

\* verifyProof rejects
VerifyRejects(i) ==
    /\ flow = "browser"
    /\ handlers[i].pc = "awaitVerify"
    /\ \E m \in FaultMessages :
          handlers' = [handlers EXCEPT ![i] = Catch(@, ErrorOf("Fault", m, ""))]
    /\ UNCHANGED <<flow, issued, acvmInit, noircInit, module, ageField, clicks,
                   cliVars, circuitVars>>

NextBrowser ==
    \/ InitACVMResolves
    \/ InitNoirCResolves
    \/ InitACVMRejects
    \/ InitNoirCRejects
    \/ ModuleRegistersListener
    \/ ModuleFails
    \/ \E s \in AgeStrings : TypeAge(s)
    \/ ClickIgnored
    \/ Click
    \/ \E i \in 1..MaxClicks :
          \/ CallExecute(i)
          \/ ExecuteSettles(i)
          \/ ProofResolves(i)
          \/ ProofRejects(i)
          \/ VerifyResolves(i)
          \/ VerifyRejects(i)

(***************************************************************************)
(* The command-line workflow of the tutorial.                              *)
(***************************************************************************)
\* nargo execute: the circuit is evaluated on the values of Prover.toml
NargoExecute ==
    /\ flow = "cli"
    /\ cliPc = "toml"
    /\ execResult' = Evaluate(proverToml)
    /\ cliPc' = "executed"
    /\ UNCHANGED <<flow, issued, browserVars, circuitVars, proverToml, numPublicInputs,
                   proofFile, filePubs, hexPublicInputs, hexProof, lastVerify>>

\* the proof file: the public inputs, one 32-byte big-endian word each, then
\* the proof blob
ProofFileOf(pub, blob) == EncodePublicInputs(pub) \o blob

\* bb prove -b ./target/hello_world.json -w ./target/hello_world.gz -o
\* ./target/proof: needs the witness nargo execute saved
BbProve ==
    /\ flow = "cli"
    /\ cliPc = "executed"
    /\ execResult.ok
    /\ \E blob \in ProofBlobs :
          LET w == execResult.witness[1]
          IN  /\ issued' = issued \cup { Proved(w, blob) }
              /\ filePubs' = PublicInputs(w)
              /\ proofFile' = ProofFileOf(PublicInputs(w), blob)
    /\ cliPc' = "proved"
    /\ UNCHANGED <<flow, browserVars, circuitVars, proverToml, execResult, numPublicInputs,
                   hexPublicInputs, hexProof, lastVerify>>

\* the 32-byte words of a byte string, as field elements
RECURSIVE WordsOf(_)
WordsOf(bytes) ==
    IF Len(bytes) < WORD_BYTES THEN <<>>
    ELSE << BigEndianValue(SubSeq(bytes, 1, WORD_BYTES), 0) >>
         \o WordsOf(SubSeq(bytes, WORD_BYTES + 1, Len(bytes)))

VerifyCall(by, vk, pub, blob) ==
    [by |-> by, vk |-> vk, publicInputs |-> pub, proof |-> blob,
     outcome |-> Verify(issued, vk, pub, blob)]

\* bb verify -k ./target/vk -p ./target/proof, with the key of either circuit:
\* the key tells how many words of the file are public inputs
BbVerify(circuit) ==
    /\ flow = "cli"
    /\ cliPc = "proved"
    /\ LET n == WORD_BYTES * NumPublic(circuit)
       IN  lastVerify' = VerifyCall("bb", VK(circuit),
                                    WordsOf(HeadBytes(n, proofFile)),
                                    TailFrom(n + 1, proofFile))
    /\ UNCHANGED <<flow, issued, browserVars, circuitVars, proverToml, cliPc, execResult,
                   numPublicInputs, proofFile, filePubs, hexPublicInputs,
                   hexProof>>

ExtractOffByOne(n, file) ==
    [publicInputs |-> uint8ArrayToHex(HeadBytes(WORD_BYTES * n, file)),
     proof |-> uint8ArrayToHex(TailFrom(WORD_BYTES * n, file))]

\* the extraction script of readme.md: PUBLIC_INPUT_BYTES=32, whatever the
\* number of public inputs
ExtractOneWord(n, file) ==
    [publicInputs |-> uint8ArrayToHex(HeadBytes(WORD_BYTES, file)),
     proof |-> uint8ArrayToHex(TailFrom(WORD_BYTES + 1, file))]

\* the extraction script of the tutorial: PUBLIC_INPUT_BYTES=32*NUM_PUBLIC_INPUTS,
\* HEX_PUBLIC_INPUTS = head -c PUBLIC_INPUT_BYTES | od ..,
\* HEX_PROOF = tail -c +(PUBLIC_INPUT_BYTES + 1) | od ..
Extract(n, file) ==
    [publicInputs |-> uint8ArrayToHex(HeadBytes(WORD_BYTES * n, file)),
     proof |-> uint8ArrayToHex(TailFrom(WORD_BYTES * n + 1, file))]

ExtractScript ==
    /\ flow \in {"cli", "extract"}
    /\ cliPc = "proved"
    /\ hexPublicInputs' = Extract(numPublicInputs, proofFile).publicInputs
    /\ hexProof' = Extract(numPublicInputs, proofFile).proof
    /\ cliPc' = "extracted"
    /\ UNCHANGED <<flow, issued, browserVars, circuitVars, proverToml, execResult,
                   numPublicInputs, proofFile, filePubs, lastVerify>>

\* the public-input vectors and proofs a caller of the verifier contract may
\* pass: what the script extracted, and others
CallPubs == SeqsUpTo({MIN_AGE} \cup { filePubs[i] : i \in 1..Len(filePubs) }, 2)

CallProofs == { HexToBytes(hexProof) } \cup ProofBlobs

\* interact.s.sol run(): verifier.verify(proof, publicInputs) on the verifier
\* contract at CONTRACT_ADDRESS, with the proof and the public inputs the user
\* pasted; a revert ends the script
Interact(circuit, pub, blob) ==
    /\ flow = "cli"
    /\ cliPc = "extracted"
    /\ lastVerify' = VerifyCall("contract", VK(circuit), pub, blob)
    /\ UNCHANGED <<flow, issued, browserVars, circuitVars, proverToml, cliPc, execResult,
                   numPublicInputs, proofFile, filePubs, hexPublicInputs,
                   hexProof>>

NextCli ==
    \/ NargoExecute
    \/ BbProve
    \/ \E c \in Circuits : BbVerify(c)
    \/ ExtractScript
    \/ \E c \in Circuits, pub \in CallPubs, blob \in CallProofs :
          Interact(c, pub, blob)

(***************************************************************************)
(* The comparison constraint of the compiled circuit, solved for a pair    *)
(* of field elements assigned to its operands.                             *)
(***************************************************************************)
SolveComparison ==
    /\ flow = "circuit"
    /\ cmpResult = <<>>
    /\ cmpResult' = << GreaterOrEqual(opA, opB, U8Bits) >>
    /\ UNCHANGED <<flow, issued, browserVars, cliVars, opA, opB>>

NextCircuit == SolveComparison

Next == NextBrowser \/ NextCli \/ NextCircuit

Spec == Init /\ [][Next]_vars

(***************************************************************************)
(* The page alone, with every awaited call of a started handler run        *)
(* eventually settling: the continuation queued by await getCircuit() is   *)
(* run, noir.execute returns or throws, and backend.generateProof and      *)
(* backend.verifyProof resolve or reject.                                  *)
(***************************************************************************)
InitBrowser == Init /\ flow = "browser"

AwaitedCallsSettle ==
    \A i \in 1..MaxClicks :
       /\ WF_vars(CallExecute(i))
       /\ WF_vars(ExecuteSettles(i))
       /\ WF_vars(ProofResolves(i) \/ ProofRejects(i))
       /\ WF_vars(VerifyResolves(i) \/ VerifyRejects(i))

FairSpec == InitBrowser /\ [][NextBrowser]_vars /\ AwaitedCallsSettle

(***************************************************************************)
(* Vocabulary of the properties.                                           *)
(***************************************************************************)
IsU8(x) == x.kind = "int" /\ x.v >= 0 /\ x.v < 256

CliExecuted == flow = "cli" /\ cliPc \in {"executed", "proved", "extracted"}

\* run i of the click handler is past the settlement of noir.execute
PastExecute(i) == handlers[i].pc \in {"awaitProof", "awaitVerify", "done"}

\* the age run i passed to noir.execute
AgeOf(i) == ParseInput(handlers[i].age)

\* a witness assigns every signal of main and satisfies its constraint
CompleteWitness(w, age, min_age) ==
    /\ DOMAIN w = {"age", "min_age"}
    /\ w["age"] = age
    /\ w["min_age"] = min_age

Satisfying(w) ==
    /\ w["age"] >= w["min_age"]
    /\ w["age"] < 256
    /\ w["min_age"] < 256

\* the proof was generated, for (vk, pub), from a witness satisfying the circuit
GeneratedFor(vk, pub, blob) ==
    \E e \in issued :
       /\ e.vk = vk
       /\ e.publicInputs = pub
       /\ e.proof = blob
       /\ Satisfying(e.witness)

\* the number of public signals each circuit declares
DeclaredPublic(vk) == IF vk = "hello_world" THEN 1 ELSE 0

\* run i ended after noir.execute got an in-range age below 18
FailedConstraint(i) ==
    /\ handlers[i].pc = "done"
    /\ IsU8(AgeOf(i))
    /\ AgeOf(i).v < 18

\* the texts run i alerted
AlertsOf(i) == { handlers[i].alerts[k] : k \in 1..Len(handlers[i].alerts) }

(***************************************************************************)
(* C1: for every (age, min_age) of 8-bit values with age >= min_age the    *)
(* evaluation succeeds with a complete witness whose public-input vector   *)
(* is exactly <<min_age>>; in the browser the vector is <<18>> whatever    *)
(* admissible age was entered.                                             *)
(***************************************************************************)
C1_PublicInputsAreMinAge ==
    /\ ( /\ CliExecuted
         /\ IsU8(proverToml.age)
         /\ IsU8(proverToml.min_age)
         /\ proverToml.age.v >= proverToml.min_age.v )
       => /\ execResult.ok
          /\ Len(execResult.witness) = 1
          /\ CompleteWitness(execResult.witness[1], proverToml.age.v,
                             proverToml.min_age.v)
          /\ PublicInputs(execResult.witness[1]) = <<proverToml.min_age.v>>
    /\ \A i \in 1..MaxClicks :
          (PastExecute(i) /\ IsU8(AgeOf(i)) /\ AgeOf(i).v >= 18)
          => /\ Len(handlers[i].witness) = 1
             /\ CompleteWitness(handlers[i].witness[1], AgeOf(i).v, 18)
             /\ PublicInputs(handlers[i].witness[1]) = <<18>>
             /\ handlers[i].proof # <<>>
                => handlers[i].proof[1].publicInputs = <<18>>

C1_Witness ==
    /\ CliExecuted
    /\ proverToml = [age |-> IntVal(24), min_age |-> IntVal(18)]
    /\ execResult.ok
    /\ PublicInputs(execResult.witness[1]) = <<18>>

(***************************************************************************)
(* C2: for every in-range (age, min_age) with age < min_age the evaluation *)
(* fails with the constraint violation of the comparison and no witness is *)
(* observable; in the browser generateProof and verifyProof are never      *)
(* called for that click.                                                  *)
(***************************************************************************)
C2_ViolationYieldsNoWitness ==
    /\ ( /\ CliExecuted
         /\ IsU8(proverToml.age)
         /\ IsU8(proverToml.min_age)
         /\ proverToml.age.v < proverToml.min_age.v )
       => /\ ~execResult.ok
          /\ execResult.witness = <<>>
          /\ execResult.error.kind = "ConstraintViolation"
          /\ execResult.error.constraint = "age >= min_age"
          /\ cliPc = "executed"
          /\ proofFile = <<>>
    /\ \A i \in 1..MaxClicks :
          ( /\ handlers[i].pc \notin {"idle", "awaitCircuit"}
            /\ IsU8(AgeOf(i))
            /\ AgeOf(i).v < 18 )
          => /\ handlers[i].pc \in {"awaitExecute", "done"}
             /\ handlers[i].witness = <<>>
             /\ handlers[i].proof = <<>>
             /\ handlers[i].isValid = <<>>
             /\ handlers[i].pc = "done"
                => /\ Len(handlers[i].err) = 1
                   /\ handlers[i].err[1].kind = "ConstraintViolation"
                   /\ handlers[i].err[1].constraint = "age >= min_age"

C2_Witness ==
    /\ flow = "browser"
    /\ handlers[1].pc = "done"
    /\ handlers[1].age = <<"1", "7">>
    /\ handlers[1].err = <<AssertError>>
    /\ handlers[1].proof = <<>>

(***************************************************************************)
(* C3: input validation precedes constraint checking: a missing input is   *)
(* reported as MissingInput and a value exceeding 8 bits as                *)
(* InputOutOfRange, never as a constraint violation, also when the values  *)
(* violate age >= min_age (age = 10, min_age = 300).                       *)
(***************************************************************************)
C3_ValidationBeforeConstraint ==
    CliExecuted =>
       LET a == proverToml.age
           m == proverToml.min_age
       IN  /\ (a.kind = "missing" \/ m.kind = "missing")
              => /\ ~execResult.ok
                 /\ execResult.error.kind = "MissingInput"
           /\ ( /\ a.kind = "int"
                /\ m.kind = "int"
                /\ (a.v >= 256 \/ m.v >= 256) )
              => /\ ~execResult.ok
                 /\ execResult.error.kind = "InputOutOfRange"

C3_Witness ==
    /\ CliExecuted
    /\ proverToml = [age |-> IntVal(10), min_age |-> IntVal(300)]
    /\ execResult.error.kind = "InputOutOfRange"

(***************************************************************************)
(* C4: a well-formed verification returns true if and only if the proof    *)
(* was generated from a witness satisfying the circuit of the              *)
(* verification key, for exactly the public inputs given; so it is false   *)
(* for altered proof bytes, other public inputs or another circuit's key.  *)
(***************************************************************************)
C4_VerifyTrueIffGenerated ==
    /\ lastVerify.outcome \in {"true", "false"}
       => ( lastVerify.outcome = "true"
            <=> GeneratedFor(lastVerify.vk, lastVerify.publicInputs,
                             lastVerify.proof) )
    /\ \A i \in 1..MaxClicks :
          handlers[i].isValid # <<>>
          => ( handlers[i].isValid[1]
               <=> GeneratedFor("hello_world", handlers[i].proof[1].publicInputs,
                                handlers[i].proof[1].proof) )

C4_Witness ==
    /\ lastVerify.by = "contract"
    /\ lastVerify.outcome = "true"
    /\ lastVerify.proof = HexToBytes(hexProof)
    /\ lastVerify.publicInputs = WordsOf(HexToBytes(hexPublicInputs))

(***************************************************************************)
(* C5: verification raises an error if and only if the public-input vector *)
(* has not the length the circuit declares (1 for hello_world, 0 for the   *)
(* sum circuit); a well-formed call with an invalid proof returns false    *)
(* and does not raise.  In the browser "Invalid" is alerted only for a     *)
(* returned false, never for a thrown error.                               *)
(***************************************************************************)
C5_ErrorIffMalformed ==
    /\ lastVerify.by # "none"
       => /\ lastVerify.outcome = "error"
             <=> Len(lastVerify.publicInputs) # DeclaredPublic(lastVerify.vk)
          /\ ( /\ Len(lastVerify.publicInputs) = DeclaredPublic(lastVerify.vk)
               /\ ~GeneratedFor(lastVerify.vk, lastVerify.publicInputs,
                                lastVerify.proof) )
             => lastVerify.outcome = "false"
    /\ \A i \in 1..MaxClicks :
          /\ "Invalid" \in { handlers[i].alerts[k] :
                               k \in 1..Len(handlers[i].alerts) }
             => handlers[i].isValid = <<FALSE>> /\ handlers[i].err = <<>>
          /\ handlers[i].err # <<>> => handlers[i].isValid = <<>>

C5_Witness ==
    /\ lastVerify.by = "contract"
    /\ lastVerify.vk = "hello_world"
    /\ Len(lastVerify.publicInputs) = 2
    /\ lastVerify.outcome = "error"

(***************************************************************************)
(* C6: round trip: the proof generated from a witness of the evaluation    *)
(* verifies as true against the key of the circuit and the witness's own   *)
(* public inputs: bb verify on the proof file, the contract call with what *)
(* the script extracted, and in the browser every run in which no call     *)
(* threw ends with the alert "Valid".                                      *)
(***************************************************************************)
C6_RoundTrip ==
    /\ (lastVerify.by = "bb" /\ lastVerify.vk = "hello_world")
       => lastVerify.outcome = "true"
    /\ ( /\ lastVerify.by = "contract"
         /\ lastVerify.vk = "hello_world"
         /\ lastVerify.proof = HexToBytes(hexProof)
         /\ lastVerify.publicInputs = WordsOf(HexToBytes(hexPublicInputs)) )
       => lastVerify.outcome = "true"
    /\ \A i \in 1..MaxClicks :
          (handlers[i].pc = "done" /\ handlers[i].err = <<>>)
          => /\ handlers[i].alerts = <<"Valid">>
             /\ handlers[i].isValid = <<TRUE>>

C6_Witness ==
    /\ flow = "browser"
    /\ handlers[1].pc = "done"
    /\ handlers[1].age = <<"2", "4">>
    /\ handlers[1].alerts = <<"Valid">>

(***************************************************************************)
(* C7: a failed evaluation reveals nothing about the private input: two    *)
(* runs with the same min_age and different ages that both violate         *)
(* age >= min_age end with the same error and the same alert text, and the *)
(* error carries no value of a signal and no witness.                      *)
(***************************************************************************)
C7_FailureHidesAge ==
    \A i, j \in 1..MaxClicks :
       (FailedConstraint(i) /\ FailedConstraint(j) /\ AgeOf(i).v # AgeOf(j).v)
       => /\ handlers[i].err = handlers[j].err
          /\ handlers[i].alerts = handlers[j].alerts
          /\ handlers[i].console = handlers[j].console
          /\ handlers[i].err[1].values = <<>>
          /\ handlers[i].witness = <<>>
          /\ handlers[i].alerts = <<ConstraintMessage>>

C7_Witness ==
    /\ FailedConstraint(1)
    /\ FailedConstraint(2)
    /\ handlers[1].age = <<"0">>
    /\ handlers[2].age = <<"1", "7">>

(***************************************************************************)
(* C8: proof byte layout: with N public inputs the script's public-input   *)
(* part is the first 32*N bytes of the file and its proof part the bytes   *)
(* from offset 32*N to the end; the parts do not overlap, their            *)
(* concatenation is the file, and public input i is the big-endian value   *)
(* of bytes [32*i, 32*i + 32) (18 is the word ending in 0x12); for one     *)
(* public input the script of readme.md extracts the same two parts.       *)
(***************************************************************************)
C8_ProofByteLayout ==
    cliPc = "extracted" =>
       LET pubBytes == HexToBytes(hexPublicInputs)
           proofBytes == HexToBytes(hexProof)
           n == Len(filePubs)
       IN  /\ Len(pubBytes) = 32 * n
           /\ pubBytes = SubSeq(proofFile, 1, 32 * n)
           /\ proofBytes = SubSeq(proofFile, 32 * n + 1, Len(proofFile))
           /\ Len(pubBytes) + Len(proofBytes) = Len(proofFile)
           /\ pubBytes \o proofBytes = proofFile
           /\ \A i \in 0..(n - 1) :
                 BigEndianValue(SubSeq(proofFile, 32 * i + 1, 32 * i + 32), 0)
                    = filePubs[i + 1]
           /\ n = 1 => ExtractOneWord(n, proofFile) = Extract(n, proofFile)
           /\ \A i \in 0..(n - 1) :
                 filePubs[i + 1] = 18
                 => /\ proofFile[32 * i + 32] = 18
                    /\ \A k \in 1..31 : proofFile[32 * i + k] = 0

C8_Witness ==
    /\ flow = "extract"
    /\ cliPc = "extracted"
    /\ filePubs = <<4660, 18>>
    /\ Len(hexProof) = 4

(***************************************************************************)
(* C9: the click handler alerts "Cannot satisfy constraint" if and only if *)
(* a call of the pipeline threw an error with exactly that message, alerts *)
(* the generic message for every other thrown error, and never alerts      *)
(* "Valid" or "Invalid" once an error was thrown.                          *)
(***************************************************************************)
C9_CatchDistinguishesConstraint ==
    \A i \in 1..MaxClicks :
       /\ ConstraintMessage \in AlertsOf(i)
          <=> (handlers[i].err # <<>>
               /\ handlers[i].err[1].message = "Cannot satisfy constraint")
       /\ (handlers[i].err # <<>>
           /\ handlers[i].err[1].message # "Cannot satisfy constraint")
          => handlers[i].alerts = <<GenericMessage>>
       /\ handlers[i].err # <<>>
          => /\ "Valid" \notin AlertsOf(i)
             /\ "Invalid" \notin AlertsOf(i)
             /\ Len(handlers[i].alerts) = 1

C9_Witness ==
    /\ handlers[1].pc = "done"
    /\ handlers[1].proof # <<>>
    /\ handlers[1].err # <<>>
    /\ handlers[1].err[1].kind = "Fault"
    /\ handlers[1].alerts = <<ConstraintMessage>>
    /\ handlers[2].pc = "done"
    /\ handlers[2].err # <<>>
    /\ handlers[2].err[1].kind = "MalformedInput"
    /\ handlers[2].alerts = <<GenericMessage>>

(***************************************************************************)
(* C10: WASM initialisation completes before any circuit operation: no run *)
(* of the click handler exists unless both initACVM and initNoirC have     *)
(* resolved, and a click arriving earlier starts nothing.                  *)
(***************************************************************************)
C10_InitBeforeCircuitOperations ==
    /\ (module = "listening" \/ \E i \in 1..MaxClicks : handlers[i].pc # "idle")
       => (acvmInit = "resolved" /\ noircInit = "resolved")
    /\ ~(acvmInit = "resolved" /\ noircInit = "resolved")
       => /\ \A i \in 1..MaxClicks : handlers[i] = NoHandler
          /\ flow = "browser" => issued = {}

C10_Witness ==
    /\ clicks = 2
    /\ handlers[1].pc = "done"
    /\ handlers[2].pc = "idle"
    /\ acvmInit = "resolved"
    /\ noircInit = "resolved"

PipelineOrder == <<"getCircuit", "execute", "generateProof", "verifyProof">>

C13_PipelineOrder ==
    \A i \in 1..MaxClicks :
       LET h == handlers[i]
           c == h.calls
       IN  /\ Len(c) <= 4
           /\ \A k \in 1..Len(c) : c[k].op = PipelineOrder[k]
           /\ Len(c) >= 2 => /\ h.pc \notin {"idle", "awaitCircuit"}
                             /\ c[2].arg = <<h.age>>
           /\ Len(c) >= 3 => /\ h.witness # <<>>
                             /\ c[3].arg = h.witness
           /\ Len(c) >= 4 => /\ h.proof # <<>>
                             /\ c[4].arg = h.proof
           /\ (AlertsOf(i) \cap {"Valid", "Invalid"}) # {}
              => /\ Len(c) = 4
                 /\ h.isValid # <<>>
                 /\ h.pc = "done"

C13_Witness ==
    /\ handlers[1].pc = "done"
    /\ handlers[1].alerts = <<"Valid">>
    /\ Len(handlers[1].calls) = 4
    /\ handlers[2].pc = "done"
    /\ handlers[2].err = <<AssertError>>
    /\ Len(handlers[2].calls) = 2

(***************************************************************************)
(* C12: the comparison constraint, expressed by bit decomposition of both  *)
(* operands and a constrained borrow, can be satisfied exactly when        *)
(* age >= min_age as integers: on operands in [0, 2^n) it agrees with the  *)
(* integer comparison of main, and no field element outside [0, 2^n),      *)
(* such as one that wraps around the modulus, makes it hold.               *)
(***************************************************************************)
C12_ComparisonIsSound ==
    (flow = "circuit" /\ cmpResult # <<>>) =>
       LET inRange == opA < Pow2(U8Bits) /\ opB < Pow2(U8Bits)
       IN  /\ inRange => cmpResult[1] = main(opA, opB)
           /\ ~inRange => cmpResult[1] = FALSE

C12_Witness ==
    /\ flow = "circuit"
    /\ opA = 5
    /\ opB = FieldModulus - 10
    /\ cmpResult = <<FALSE>>

(***************************************************************************)
(* C14: provided every awaited call eventually resolves or rejects, each   *)
(* click handled by the registered listener eventually produces exactly    *)
(* one alert, which is "Valid", "Invalid", "Cannot satisfy constraint" or  *)
(* the generic message; this holds also when runs overlap, a handled click *)
(* starts exactly one run, and no run ends without its alert.  Clicks made *)
(* while no listener is registered (the module is still awaiting the       *)
(* initialisation, or the initialisation failed) start no run and produce  *)
(* no alert.                                                               *)
(***************************************************************************)
AlertTexts == {"Valid", "Invalid", ConstraintMessage, GenericMessage}

\* the runs of the click handler started so far
Started == { i \in 1..MaxClicks : handlers[i].pc # "idle" }

InFlight == { i \in 1..MaxClicks : handlers[i].pc \notin {"idle", "done"} }

RECURSIVE AlertsUpTo(_)
AlertsUpTo(n) ==
    IF n = 0 THEN 0 ELSE AlertsUpTo(n - 1) + Len(handlers[n].alerts)

TotalAlerts == AlertsUpTo(MaxClicks)

OneAlertPerRun ==
    \A i \in 1..MaxClicks :
       /\ handlers[i].pc # "done" => handlers[i].alerts = <<>>
       /\ handlers[i].pc = "done" => /\ Len(handlers[i].alerts) = 1
                                     /\ handlers[i].alerts[1] \in AlertTexts

HandledClickStartsOneRun ==
    clicks' # clicks =>
       IF module = "listening"
       THEN /\ Cardinality(Started') = Cardinality(Started) + 1
            /\ Started \subseteq Started'
       ELSE handlers' = handlers

====
